---- MODULE Spec2Model ----
(***************************************************************************)
(* Model of the Mr. Provisioner adapters of this repository:               *)
(*   library/mr_provisioner_preseed.py        PreseedUploader, run_module  *)
(*   library/preseedupload.py                 PreseedUploader (legacy)     *)
(*   library/preseed_upload_module.py         PreseedUploader (legacy)     *)
(*   library/mr_provisioner_netboot_switch.py NetbootSwitcher, run_module  *)
(*   library/mr_provisioner_get_ip.py         IPGetter                     *)
(*                                                                         *)
(* The remote service is the environment: it holds the preseeds and the    *)
(* machines, answers every request with a status, and applies a mutating   *)
(* request exactly when it answers with that request's success status.     *)
(* Every HTTP request is one atomic step, so that two clients interleave   *)
(* at request boundaries.                                                  *)
(***************************************************************************)
EXTENDS Integers, Sequences, FiniteSets, TLC

\* ------------------------------------------------------------------ bounds
\* upload_preseed calls (and check-mode runs) started by the two concurrent
\* clients together, and by the single sequential client
MaxCalls == 2
MaxSeqCalls == 3
\* preseeds on the service before the first call
MaxInit == 2
\* machines the service holds
MaxMachines == 2
\* the longest delay, in clock ticks, a netboot run is given
MaxDelay == 2
\* interfaces of a machine
MaxIfaces == 2

\* ------------------------------------------------------- program constants
\* self.id = -1: no preseed id known to the uploader
NoId == -1
\* the path that stands for "no file given"
DevNull == "/dev/null"

\* ------------------------------------------------------------ preseed data
\* the name every uploader of the model is constructed with, and another name
TargetName == "p1"
OtherName == "p2"
PreseedType == "preseed"
\* file contents a caller can upload; OldContent is what the service already holds
Contents == {"X", "Y"}
OldContent == "Z"
\* preseed_file argument: a file (named by what it holds) or /dev/null
Files == Contents \cup {DevNull}
Clients == {"c1", "c2"}
\* "module" is mr_provisioner_preseed.py; "legacy" is preseedupload.py and
\* preseed_upload_module.py, whose PreseedUploader classes are the same text
Variants == {"module", "legacy"}

GetStatuses == {200, 500}
PostStatuses == {200, 201, 500}
PutStatuses == {200, 201, 500}
MissingStatuses == {404, 500}

NoRecord == [id |-> NoId, name |-> "", type |-> "", content |-> ""]

VARIABLES
    variant,   \* which implementation of PreseedUploader the behaviour runs
    store,     \* the service's preseeds, in listing order: [id, name, type, content]
    nextId,    \* the id the service gives to the next created preseed
    up,        \* per client: its PreseedUploader object and the call in progress
    prev,      \* per client: the call it completed before the current one
    ncalls,    \* calls started so far
    lastOk     \* content of the latest call with content that ended successfully

pvars == <<variant, store, nextId, up, prev, ncalls, lastOk>>

VARIABLES
    machines,  \* the service's machines: [id, name, netboot_enabled, hostname]
    nb         \* the run of mr_provisioner_netboot_switch.py and its NetbootSwitcher

nvars == <<machines, nb>>

VARIABLES
    ifaces,    \* the service's interface records of the machine that is looked up
    ip         \* the IPGetter under construction and what became of it

ivars == <<ifaces, ip>>

vars == <<pvars, nvars, ivars>>

\* ------------------------------------------------------------- the service
RECURSIVE FirstMatch(_, _, _)
\* index of the first entry of listing, from position i on, named name; 0 if none
FirstMatch(listing, name, i) ==
    IF i > Len(listing) THEN 0
    ELSE IF listing[i].name = name THEN i
    ELSE FirstMatch(listing, name, i + 1)

IdsOf(st) == {st[i].id : i \in 1..Len(st)}

IndexOfId(st, id) == CHOOSE i \in 1..Len(st) : st[i].id = id

\* the first entry of a listing with the name, NoRecord if there is none
FirstNamed(listing, name) ==
    IF FirstMatch(listing, name, 1) = 0 THEN NoRecord
    ELSE listing[FirstMatch(listing, name, 1)]

Named(st, name) == {i \in 1..Len(st) : st[i].name = name}

\* GET /api/v1/preseed?show_all=true: every preseed, or an error without a body
ServiceList(st, status) ==
    [status_code |-> status, json |-> IF status = 200 THEN st ELSE <<>>]

\* POST /api/v1/preseed: created (with a new id) exactly when answered 201
ServicePost(st, nid, body, status) ==
    IF status = 201
    THEN Append(st, [id |-> nid, name |-> body.name, type |-> body.type,
                     content |-> body.content])
    ELSE st

\* PUT /api/v1/preseed/<id>: the whole record replaced exactly when answered 200
ServicePut(st, id, body, status) ==
    IF status = 200 /\ id \in IdsOf(st)
    THEN [st EXCEPT ![IndexOfId(st, id)] =
             [id |-> id, name |-> body.name, type |-> body.type,
              content |-> body.content]]
    ELSE st

\* the statuses the service can answer a PUT to id with
PutStatusesFor(st, id) == IF id \in IdsOf(st) THEN PutStatuses ELSE MissingStatuses

\* --------------------------------------------------------- PreseedUploader
\* PreseedUploader.__init__: a new object knows no id
NewUploader ==
    [pc |-> "idle", file |-> DevNull, name |-> TargetName, type |-> PreseedType,
     id |-> NoId, lstatus |-> 0, found |-> NoRecord, nfound |-> 0, exists |-> FALSE,
     reqs |-> <<>>, res |-> "-", raised |-> FALSE, retkind |-> "-",
     ret |-> NoRecord, changed |-> FALSE, fresh |-> TRUE, checkmode |-> FALSE]

\* _check_for_existence with the id taken from the first listed entry, whatever
\* its name
check_for_existence_first(self, r) ==
    IF r.status_code # 200
    THEN [raised |-> TRUE, exists |-> FALSE, id |-> self.id]
    ELSE IF Len(r.json) > 0
         THEN [raised |-> FALSE, exists |-> TRUE, id |-> r.json[1].id]
         ELSE [raised |-> FALSE, exists |-> FALSE, id |-> self.id]

\* _check_for_existence that keeps the id of the last listed entry with the name
check_for_existence_last(self, r) ==
    IF r.status_code # 200
    THEN [raised |-> TRUE, exists |-> FALSE, id |-> self.id]
    ELSE LET S == Named(r.json, self.name)
         IN IF S # {}
            THEN [raised |-> FALSE, exists |-> TRUE,
                  id |-> r.json[CHOOSE i \in S : \A j \in S : j <= i].id]
            ELSE [raised |-> FALSE, exists |-> FALSE, id |-> self.id]

\* _check_for_existence: raise on a status other than 200; else scan the listing
\* and remember the id of the first entry with the uploader's name
check_for_existence(self, r) ==
    IF r.status_code # 200
    THEN [raised |-> TRUE, exists |-> FALSE, id |-> self.id]
    ELSE LET i == FirstMatch(r.json, self.name, 1)
         IN IF i # 0
            THEN [raised |-> FALSE, exists |-> TRUE, id |-> r.json[i].id]
            ELSE [raised |-> FALSE, exists |-> FALSE, id |-> self.id]

\* open(self.file).read(): /dev/null reads as the empty string
ReadFile(file) == IF file = DevNull THEN "" ELSE file

\* _get_preseed_from_file with the type written into the name field
get_preseed_from_file_name(self) ==
    [content |-> ReadFile(self.file), name |-> self.type, type |-> self.type]

\* _get_preseed_from_file: the request body
get_preseed_from_file(self) ==
    [content |-> ReadFile(self.file), name |-> self.name, type |-> self.type]

\* run_module after upload_preseed: changed = True unless the call raised or
\* returned a dict with an 'error' key
run_module_changed(res) == res = "ok"

\* the call ends: res is "ok" or the error, raised tells an exception from a
\* returned error dict, retkind/ret are the value returned
Finish(self, res, raised, retkind, ret) ==
    [self EXCEPT !.pc = "done", !.res = res, !.raised = raised,
                 !.retkind = retkind, !.ret = ret,
                 !.changed = run_module_changed(res)]

\* upload_preseed that always creates when a file is given
upload_preseed_always_post(self, raised) ==
    IF raised THEN Finish(self, "error_fetch", FALSE, "dict", NoRecord)
    ELSE IF ~self.exists /\ self.file = DevNull
    THEN Finish(self, "error_missing", FALSE, "dict", NoRecord)
    ELSE IF self.file # DevNull THEN [self EXCEPT !.pc = "post"]
    ELSE Finish(self, "ok", FALSE, "empty", NoRecord)

\* upload_preseed without the test for a missing file
upload_preseed_no_missing(self, raised) ==
    IF raised THEN Finish(self, "error_fetch", FALSE, "dict", NoRecord)
    ELSE IF self.id # NoId /\ self.file # DevNull THEN [self EXCEPT !.pc = "put"]
    ELSE IF self.file # DevNull THEN [self EXCEPT !.pc = "post"]
    ELSE Finish(self, "ok", FALSE, "empty", NoRecord)

\* upload_preseed that updates whenever an id is known, file or not
upload_preseed_put_on_id(self, raised) ==
    IF raised THEN Finish(self, "error_fetch", FALSE, "dict", NoRecord)
    ELSE IF ~self.exists /\ self.file = DevNull
    THEN Finish(self, "error_missing", FALSE, "dict", NoRecord)
    ELSE IF self.id # NoId THEN [self EXCEPT !.pc = "put"]
    ELSE IF self.file # DevNull THEN [self EXCEPT !.pc = "post"]
    ELSE Finish(self, "ok", FALSE, "empty", NoRecord)

\* upload_preseed that goes on after a failed listing
upload_preseed_ignore_fetch(self, raised) ==
    IF ~self.exists /\ self.file = DevNull
    THEN Finish(self, "error_missing", FALSE, "dict", NoRecord)
    ELSE IF self.id # NoId /\ self.file # DevNull THEN [self EXCEPT !.pc = "put"]
    ELSE IF self.file # DevNull THEN [self EXCEPT !.pc = "post"]
    ELSE Finish(self, "ok", FALSE, "empty", NoRecord)

\* mr_provisioner_preseed.py upload_preseed, from the listing's answer to the
\* choice of the request
upload_preseed_module(self, raised) ==
    IF raised THEN Finish(self, "error_fetch", FALSE, "dict", NoRecord)
    ELSE IF ~self.exists /\ self.file = DevNull
    THEN Finish(self, "error_missing", FALSE, "dict", NoRecord)
    ELSE IF self.id # NoId /\ self.file # DevNull THEN [self EXCEPT !.pc = "put"]
    ELSE IF self.file # DevNull THEN [self EXCEPT !.pc = "post"]
    ELSE Finish(self, "ok", FALSE, "empty", NoRecord)

\* preseedupload.py / preseed_upload_module.py upload_preseed: the listing's
\* error is printed, and the request is chosen by self.id alone
upload_preseed_legacy(self, raised) ==
    IF self.id # NoId THEN [self EXCEPT !.pc = "put"]
    ELSE [self EXCEPT !.pc = "post"]

upload_preseed_decide(v, self, raised) ==
    IF v = "module" THEN upload_preseed_module(self, raised)
    ELSE upload_preseed_legacy(self, raised)

\* the end of a PUT (_modify_preseed and its caller)
AfterPut(v, self, status, record) ==
    IF status # 200
    THEN Finish(self, "error_put", v = "legacy", IF v = "module" THEN "dict" ELSE "-", NoRecord)
    ELSE IF v = "module" THEN Finish(self, "ok", FALSE, "record", record)
    ELSE Finish(self, "ok", FALSE, "none", NoRecord)

\* the end of a POST
AfterPost(v, self, status, record) ==
    IF status # 201
    THEN Finish(self, "error_post", TRUE, "-", NoRecord)
    ELSE IF v = "module" THEN Finish(self, "ok", FALSE, "record", record)
    ELSE Finish(self, "ok", FALSE, "none", NoRecord)

\* --------------------------------------------------------- NetbootSwitcher
MachineName == "node1"
OtherMachineName == "node2"
Hostnames == {"h1", "h2"}
MachineGetStatuses == {200, 500}
MachinePutStatuses == {200, 201, 202, 500}

NoMachine == [id |-> NoId, name |-> "", netboot_enabled |-> FALSE, hostname |-> ""]

NoResponse == [status_code |-> 0, json |-> <<>>]

\* the timeout parameter is a string: a number of seconds, or not a number
TimeoutStrings == {ToString(d) : d \in -1..MaxDelay} \cup {"abc"}

IsIntString(s) == \E d \in -1..MaxDelay : ToString(d) = s

\* int(timeout_string), for the strings that are numbers
ParseInt(s) == CHOOSE d \in -1..MaxDelay : ToString(d) = s

NoRun ==
    [pc |-> "idle", name |-> "", timeout |-> "", resp |-> NoResponse,
     lookup |-> "-", machine_json |-> NoMachine, delay |-> 0, elapsed |-> 0,
     reqs |-> <<>>, res |-> "-", err |-> "-", ret |-> NoMachine, changed |-> FALSE,
     pstatus |-> 0, edited |-> "-"]

\* GET /api/v1/machine?q=(= name "<name>")&show_all=false: the machines with
\* that name; an answer with an error status comes with or without them
ServiceFindMachines(ms, name, status, body) ==
    [status_code |-> status,
     json |-> IF status = 200 \/ body THEN SelectSeq(ms, LAMBDA m : m.name = name)
              ELSE <<>>]

\* PUT /api/v1/machine/<id>: the whole record replaced when answered 200 or 202
ServicePutMachine(ms, id, body, status) ==
    IF status \in {200, 202} /\ id \in IdsOf(ms)
    THEN [ms EXCEPT ![IndexOfId(ms, id)] = body]
    ELSE ms

\* get_machine_by_name that takes the first match when there are several
get_machine_by_name_first(r) ==
    IF r.status_code # 200 THEN [kind |-> "transport", machine |-> NoMachine]
    ELSE IF Len(r.json) = 0 THEN [kind |-> "notfound", machine |-> NoMachine]
    ELSE [kind |-> "machine", machine |-> r.json[1]]

\* get_machine_by_name that counts the matches before it tests the status
get_machine_by_name_count_first(r) ==
    IF Len(r.json) = 1 THEN [kind |-> "machine", machine |-> r.json[1]]
    ELSE IF r.status_code # 200 THEN [kind |-> "transport", machine |-> NoMachine]
    ELSE IF Len(r.json) = 0 THEN [kind |-> "notfound", machine |-> NoMachine]
    ELSE [kind |-> "ambiguous", machine |-> NoMachine]

\* NetbootSwitcher.get_machine_by_name, from the response on: the status is
\* tested first, then the number of matches
get_machine_by_name(r) ==
    IF r.status_code # 200 THEN [kind |-> "transport", machine |-> NoMachine]
    ELSE IF Len(r.json) = 0 THEN [kind |-> "notfound", machine |-> NoMachine]
    ELSE IF Len(r.json) > 1 THEN [kind |-> "ambiguous", machine |-> NoMachine]
    ELSE [kind |-> "machine", machine |-> r.json[1]]

\* IPGetter.get_machine_by_name, from the response on
ipgetter_get_machine_by_name(r) ==
    IF r.status_code # 200 THEN [kind |-> "transport", machine |-> NoMachine]
    ELSE IF Len(r.json) = 0 THEN [kind |-> "notfound", machine |-> NoMachine]
    ELSE IF Len(r.json) > 1 THEN [kind |-> "ambiguous", machine |-> NoMachine]
    ELSE [kind |-> "machine", machine |-> r.json[1]]

\* time.sleep that returns only after more than delay seconds
SleepOver_late(elapsed, delay) == elapsed > delay

\* time.sleep that returns at once
SleepOver_nosleep(elapsed, delay) == TRUE

\* time.sleep(delay) returns once delay seconds have passed
SleepOver(elapsed, delay) == elapsed >= delay

\* switch_netboot_flag taking 200 alone for a success
switch_netboot_ok_200(status) == status = 200

\* switch_netboot_flag: the statuses of the PUT that do not raise
switch_netboot_ok(status) == status \in {200, 202}

\* switch_netboot_flag sending the flag and the id alone
switch_netboot_request_partial(machine_json) ==
    [verb |-> "PUT", id |-> machine_json.id,
     body |-> [NoMachine EXCEPT !.id = machine_json.id, !.name = machine_json.name]]

\* the request of switch_netboot_flag: the flag is cleared on the record the
\* switcher holds and the whole record is sent to that record's id
switch_netboot_request(machine_json) ==
    [verb |-> "PUT", id |-> machine_json.id,
     body |-> [machine_json EXCEPT !.netboot_enabled = FALSE]]

\* ---------------------------------------------------------------- IPGetter
InterfaceNames == {"eth0", "eth1"}
ConfigTypes == {"dynamic-reserved", "static"}
ConfiguredAddresses == {"", "10.0.0.5"}
LeaseAddress == "10.0.0.9"
InterfaceGetStatuses == {200, 500}

\* what iterating a requests.Response yields: a piece of the body's text
RawChunk ==
    [raw |-> TRUE, identifier |-> "", config_type_v4 |-> "", configured_ipv4 |-> "",
     lease_ipv4 |-> ""]

NoGetter ==
    [pc |-> "idle", machine_name |-> "", interface |-> "", machine_id |-> NoId,
     lookup |-> "-", fetched |-> FALSE, entries |-> <<>>, printed |-> FALSE,
     outcome |-> "-", value |-> "-"]

\* the truth value Python gives a number, and a string
TruthyNumber(n) == n # 0

TruthyString(s) == s # ""

\* GET /api/v1/machine/<id>/interface: the interface records, or an error
ServiceInterfaces(ifs, status) ==
    [status_code |-> status, json |-> IF status = 200 THEN ifs ELSE <<>>]

\* get_interfaces after its request: an error for a status other than 200 and
\* for an empty collection; otherwise the Response object itself is returned,
\* not its decoded body
get_interfaces(r) ==
    IF r.status_code # 200 THEN [raised |-> TRUE, err |-> "transport", value |-> r]
    ELSE IF Len(r.json) = 0 THEN [raised |-> TRUE, err |-> "notfound", value |-> r]
    ELSE [raised |-> FALSE, err |-> "-", value |-> r]

\* iter(Response) is Response.iter_content(128): the body's text in pieces, at
\* least one for a body that is not empty; the decoded entries are never seen
IterResponse(r) == [k \in 1..(Len(r.json) + 1) |-> RawChunk]

RECURSIVE get_ip_scan(_, _, _)
\* the loop of get_ip over what the iteration yields, from item k on:
\* i['identifier'] on a piece of text is a TypeError; on a record the first one
\* with the wanted identifier decides; falling off the loop returns None
get_ip_scan(items, k, interface) ==
    IF k > Len(items) THEN [outcome |-> "return", value |-> "None"]
    ELSE IF items[k].raw THEN [outcome |-> "TypeError", value |-> "-"]
    ELSE IF items[k].identifier = interface
    THEN IF items[k].config_type_v4 = "dynamic-reserved" /\ TruthyString(items[k].configured_ipv4)
         THEN [outcome |-> "return", value |-> items[k].configured_ipv4]
         ELSE [outcome |-> "return", value |-> items[k].lease_ipv4]
    ELSE get_ip_scan(items, k + 1, interface)

\* get_ip once get_interfaces has returned or raised: the ProvisionerError is
\* printed and execution goes on to the loop, where the name interfaces is not
\* bound
get_ip(self, got) ==
    IF got.raised
    THEN [self EXCEPT !.pc = "done", !.printed = TRUE, !.outcome = "UnboundLocalError"]
    ELSE LET s == get_ip_scan(IterResponse(got.value), 1, self.interface)
         IN [self EXCEPT !.pc = "done", !.fetched = TRUE, !.entries = got.value.json,
                         !.outcome = s.outcome, !.value = s.value]

\* ----------------------------------------------------------------- actions
\* a client starts upload_preseed, on a new uploader or on the one it has
Begin(c, file, fresh, limit) ==
    /\ up[c].pc \in {"idle", "done"}
    /\ ~fresh => up[c].pc = "done" /\ ~up[c].checkmode
    /\ ncalls < limit
    /\ ncalls' = ncalls + 1
    /\ prev' = [prev EXCEPT ![c] = up[c]]
    /\ up' = [up EXCEPT ![c] =
                 [NewUploader EXCEPT !.pc = "check", !.file = file, !.fresh = fresh,
                                     !.id = IF fresh THEN NoId ELSE up[c].id]]
    /\ UNCHANGED <<variant, store, nextId, lastOk, nvars, ivars>>

\* somebody else deletes a preseed on the service
Delete(i) ==
    /\ i \in 1..Len(store)
    /\ store' = SubSeq(store, 1, i - 1) \o SubSeq(store, i + 1, Len(store))
    /\ UNCHANGED <<variant, nextId, up, prev, ncalls, lastOk, nvars, ivars>>

\* run_module in check mode: returns before any uploader is built
CheckMode(c, limit) ==
    /\ up[c].pc \in {"idle", "done"}
    /\ ncalls < limit
    /\ ncalls' = ncalls + 1
    /\ prev' = [prev EXCEPT ![c] = up[c]]
    /\ up' = [up EXCEPT ![c] = [NewUploader EXCEPT !.pc = "done", !.checkmode = TRUE]]
    /\ UNCHANGED <<variant, store, nextId, lastOk, nvars, ivars>>

\* the listing request and everything upload_preseed does up to its next request
Check(c) ==
    /\ up[c].pc = "check"
    /\ \E status \in GetStatuses :
         LET r == ServiceList(store, status)
             chk == check_for_existence(up[c], r)
             self1 == [up[c] EXCEPT !.id = chk.id, !.exists = chk.exists,
                                    !.lstatus = status,
                                    !.found = FirstNamed(r.json, up[c].name),
                                    !.nfound = Cardinality(Named(r.json, up[c].name))]
         IN up' = [up EXCEPT ![c] = upload_preseed_decide(variant, self1, chk.raised)]
    /\ UNCHANGED <<variant, store, nextId, prev, ncalls, lastOk, nvars, ivars>>

\* the PUT of _modify_preseed and the end of the call
Put(c) ==
    /\ up[c].pc = "put"
    /\ \E status \in PutStatusesFor(store, up[c].id) :
         LET body == get_preseed_from_file(up[c])
             st1 == ServicePut(store, up[c].id, body, status)
             record == IF status = 200 THEN st1[IndexOfId(st1, up[c].id)] ELSE NoRecord
             self1 == [up[c] EXCEPT !.reqs = Append(@,
                          [verb |-> "PUT", id |-> up[c].id, status |-> status,
                           content |-> body.content])]
         IN /\ store' = st1
            /\ up' = [up EXCEPT ![c] = AfterPut(variant, self1, status, record)]
            /\ lastOk' = IF AfterPut(variant, self1, status, record).res = "ok"
                         THEN body.content ELSE lastOk
    /\ UNCHANGED <<variant, nextId, prev, ncalls, nvars, ivars>>

\* the POST of upload_preseed and the end of the call
Post(c) ==
    /\ up[c].pc = "post"
    /\ \E status \in PostStatuses :
         LET body == get_preseed_from_file(up[c])
             st1 == ServicePost(store, nextId, body, status)
             record == IF status = 201 THEN st1[Len(st1)] ELSE NoRecord
             self1 == [up[c] EXCEPT !.reqs = Append(@,
                          [verb |-> "POST", id |-> record.id, status |-> status,
                           content |-> body.content])]
         IN /\ store' = st1
            /\ nextId' = IF status = 201 THEN nextId + 1 ELSE nextId
            /\ up' = [up EXCEPT ![c] = AfterPost(variant, self1, status, record)]
            /\ lastOk' = IF AfterPost(variant, self1, status, record).res = "ok"
                         THEN body.content ELSE lastOk
    /\ UNCHANGED <<variant, prev, ncalls, nvars, ivars>>

\* run_module of the netboot switch starts: in check mode it returns at once
NetStart(timeout, check_mode) ==
    /\ nb.pc = "idle"
    /\ nb' = IF check_mode
             THEN [nb EXCEPT !.pc = "done", !.res = "checkmode"]
             ELSE [nb EXCEPT !.pc = "lookup1", !.name = MachineName, !.timeout = timeout]
    /\ UNCHANGED <<pvars, ivars, machines>>

\* a NetbootSwitcher is built: __init__ looks the machine up. The first one is
\* built outside the try block (an error ends the run with a traceback), the
\* second one inside it (an error ends the run with fail_json)
NetLookup(first) ==
    /\ nb.pc = IF first THEN "lookup1" ELSE "lookup2"
    /\ \E status \in MachineGetStatuses, body \in BOOLEAN :
         LET r == ServiceFindMachines(machines, nb.name, status, body)
             got == get_machine_by_name(r)
             self1 == [nb EXCEPT !.resp = r, !.lookup = got.kind,
                                 !.machine_json = got.machine,
                                 !.reqs = Append(@, [verb |-> "GET", id |-> NoId,
                                                     body |-> NoMachine])]
         IN nb' = IF got.kind # "machine"
                  THEN [self1 EXCEPT !.pc = "done", !.err = got.kind,
                                     !.res = IF first THEN "crashed" ELSE "failed"]
                  ELSE [self1 EXCEPT !.pc = IF first THEN "lookup2" ELSE "timeout"]
    /\ UNCHANGED <<pvars, ivars, machines>>

\* do_timeout: int() of the string, then time.sleep starts; neither ValueError
\* (not a number, or a negative number) is caught by run_module
NetTimeout ==
    /\ nb.pc = "timeout"
    /\ nb' = IF ~IsIntString(nb.timeout) \/ ParseInt(nb.timeout) < 0
             THEN [nb EXCEPT !.pc = "done", !.res = "crashed", !.err = "ValueError"]
             ELSE [nb EXCEPT !.pc = "sleep", !.delay = ParseInt(nb.timeout),
                             !.elapsed = 0]
    /\ UNCHANGED <<pvars, ivars, machines>>

\* a second passes while the run sleeps
Tick ==
    /\ nb.pc = "sleep"
    /\ nb.elapsed < nb.delay
    /\ nb' = [nb EXCEPT !.elapsed = @ + 1]
    /\ UNCHANGED <<pvars, ivars, machines>>

\* time.sleep returns, then switch_netboot_flag and the end of run_module
NetSwitch ==
    /\ nb.pc = "sleep"
    /\ SleepOver(nb.elapsed, nb.delay)
    /\ \E status \in MachinePutStatuses :
         LET req == switch_netboot_request(nb.machine_json)
             ms1 == ServicePutMachine(machines, req.id, req.body, status)
             self1 == [nb EXCEPT !.machine_json = req.body,
                                 !.reqs = Append(@, [verb |-> req.verb, id |-> req.id,
                                                     body |-> req.body]),
                                 !.pstatus = status]
         IN /\ machines' = ms1
            /\ nb' = IF ~switch_netboot_ok(status)
                     THEN [self1 EXCEPT !.pc = "done", !.res = "failed",
                                        !.err = "transport"]
                     ELSE [self1 EXCEPT !.pc = "done", !.res = "ok", !.changed = TRUE,
                                        !.ret = ms1[IndexOfId(ms1, req.id)]]
    /\ UNCHANGED <<pvars, ivars>>

\* another user of the service changes a field of a machine; nb.edited keeps
\* what was written to the run's machine while the run was in its delay
OtherUpdate(i, h) ==
    /\ i \in 1..Len(machines)
    /\ machines[i].hostname # h
    /\ machines' = [machines EXCEPT ![i].hostname = h]
    /\ nb' = IF nb.pc = "sleep" /\ machines[i].id = nb.machine_json.id
             THEN [nb EXCEPT !.edited = h] ELSE nb
    /\ UNCHANGED <<pvars, ivars>>

\* IPGetter(url, token, machine_name, interface_name): __init__ calls get_ip
IPStart(interface) ==
    /\ ip.pc = "idle"
    /\ ip' = [ip EXCEPT !.pc = "machine", !.machine_name = MachineName,
                        !.interface = interface]
    /\ UNCHANGED <<pvars, nvars, ifaces>>

\* get_interfaces up to its own request: the machine lookup and the id test
IPMachine ==
    /\ ip.pc = "machine"
    /\ \E status \in MachineGetStatuses, body \in BOOLEAN :
         LET r == ServiceFindMachines(machines, ip.machine_name, status, body)
             got == ipgetter_get_machine_by_name(r)
             self1 == [ip EXCEPT !.lookup = got.kind]
         IN ip' = IF got.kind # "machine"
                  THEN get_ip(self1, [raised |-> TRUE, err |-> got.kind, value |-> r])
                  ELSE IF ~TruthyNumber(got.machine.id)
                  THEN get_ip(self1, [raised |-> TRUE, err |-> "noid", value |-> r])
                  ELSE [self1 EXCEPT !.pc = "interfaces", !.machine_id = got.machine.id]
    /\ UNCHANGED <<pvars, nvars, ifaces>>

\* the interface request, the rest of get_interfaces and the loop of get_ip
IPInterfaces ==
    /\ ip.pc = "interfaces"
    /\ \E status \in InterfaceGetStatuses :
         ip' = get_ip(ip, get_interfaces(ServiceInterfaces(ifaces, status)))
    /\ UNCHANGED <<pvars, nvars, ifaces>>

\* ---------------------------------------------------------- specifications
InitStores(names) ==
    UNION {[1..n -> names] : n \in 0..MaxInit}

MakeStore(ns) ==
    [i \in 1..Len(ns) |-> [id |-> i, name |-> ns[i], type |-> PreseedType,
                            content |-> OldContent]]

InitWith(names, variants) ==
    /\ variant \in variants
    /\ \E ns \in InitStores(names) :
         /\ store = MakeStore(ns)
         /\ nextId = Len(ns) + 1
    /\ up = [c \in Clients |-> NewUploader]
    /\ prev = [c \in Clients |-> NewUploader]
    /\ ncalls = 0
    /\ lastOk = "-"
    /\ machines = <<>>
    /\ nb = NoRun
    /\ ifaces = <<>>
    /\ ip = NoGetter

\* two clients running mr_provisioner_preseed.py against a service that may
\* already hold preseeds
Init == InitWith({TargetName, OtherName}, {"module"})

Next ==
    \/ \E c \in Clients, file \in Files, fresh \in BOOLEAN : Begin(c, file, fresh, MaxCalls)
    \/ \E c \in Clients : CheckMode(c, MaxCalls)
    \/ \E c \in Clients : Check(c)
    \/ \E c \in Clients : Put(c)
    \/ \E c \in Clients : Post(c)

Spec == Init /\ [][Next]_vars

\* one client, one call after the other, nobody else on the service, which
\* holds no preseed with the target name at the start
InitSeq == InitWith({OtherName}, Variants)

NextSeq ==
    \/ \E file \in Files, fresh \in BOOLEAN : Begin("c1", file, fresh, MaxSeqCalls)
    \/ CheckMode("c1", MaxSeqCalls)
    \/ Check("c1")
    \/ Put("c1")
    \/ Post("c1")

SpecSeq == InitSeq /\ [][NextSeq]_vars

\* one client that may call upload_preseed again on the uploader it has,
\* against a service on which preseeds are deleted meanwhile
InitReuse == InitWith({TargetName, OtherName}, Variants)

NextReuse ==
    \/ \E file \in Files, fresh \in BOOLEAN : Begin("c1", file, fresh, MaxCalls)
    \/ Check("c1")
    \/ Put("c1")
    \/ Post("c1")
    \/ \E i \in 1..MaxInit + MaxCalls : Delete(i)

SpecReuse == InitReuse /\ [][NextReuse]_vars

\* one run of the netboot switch against a service that holds some machines,
\* which another user of the service edits meanwhile
InitMachines ==
    UNION {[1..n -> {MachineName, OtherMachineName} \X BOOLEAN] : n \in 0..MaxMachines}

MakeMachines(ms) ==
    [i \in 1..Len(ms) |-> [id |-> i, name |-> ms[i][1], netboot_enabled |-> ms[i][2],
                            hostname |-> "h1"]]

InitNet ==
    /\ variant = "module"
    /\ store = <<>>
    /\ nextId = 1
    /\ up = [c \in Clients |-> NewUploader]
    /\ prev = [c \in Clients |-> NewUploader]
    /\ ncalls = 0
    /\ lastOk = "-"
    /\ \E ms \in InitMachines : machines = MakeMachines(ms)
    /\ nb = NoRun
    /\ ifaces = <<>>
    /\ ip = NoGetter

NextNet ==
    \/ \E timeout \in TimeoutStrings, check_mode \in BOOLEAN : NetStart(timeout, check_mode)
    \/ \E first \in BOOLEAN : NetLookup(first)
    \/ NetTimeout
    \/ Tick
    \/ NetSwitch
    \/ \E i \in 1..MaxMachines, h \in Hostnames : OtherUpdate(i, h)

SpecNet == InitNet /\ [][NextNet]_vars

\* the same run in a process that is not stopped from outside: the statement
\* after the lookups is executed, time passes while the run sleeps, and the
\* PUT is sent once time.sleep has returned and is answered
SpecNetLive ==
    /\ InitNet /\ [][NextNet]_vars
    /\ WF_vars(NetTimeout) /\ WF_vars(Tick) /\ WF_vars(NetSwitch)

\* IPGetter is built for a machine whose interfaces the service holds
InitIfaces ==
    UNION {[1..n -> InterfaceNames \X ConfigTypes \X ConfiguredAddresses] :
              n \in 0..MaxIfaces}

MakeIfaces(is) ==
    [k \in 1..Len(is) |-> [raw |-> FALSE, identifier |-> is[k][1],
                            config_type_v4 |-> is[k][2], configured_ipv4 |-> is[k][3],
                            lease_ipv4 |-> LeaseAddress]]

InitIP ==
    /\ variant = "module"
    /\ store = <<>>
    /\ nextId = 1
    /\ up = [c \in Clients |-> NewUploader]
    /\ prev = [c \in Clients |-> NewUploader]
    /\ ncalls = 0
    /\ lastOk = "-"
    /\ \E ms \in InitMachines : machines = MakeMachines(ms)
    /\ nb = NoRun
    /\ \E is \in InitIfaces : ifaces = MakeIfaces(is)
    /\ ip = NoGetter

NextIP ==
    \/ \E interface \in InterfaceNames : IPStart(interface)
    \/ IPMachine
    \/ IPInterfaces

SpecIP == InitIP /\ [][NextIP]_vars

\* ------------------------------------------------------------------ claims
\* a completed call that was given a file and whose listing, answered 200,
\* held no preseed with the target name
ListedNone(u) ==
    /\ u.pc = "done" /\ ~u.checkmode
    /\ u.lstatus = 200 /\ u.nfound = 0

OnePost(u) == Len(u.reqs) = 1 /\ u.reqs[1].verb = "POST"

OnePutTo(u, id) == Len(u.reqs) = 1 /\ u.reqs[1].verb = "PUT" /\ u.reqs[1].id = id

\* the previous call created the target preseed: no such preseed listed, a file
\* given, one POST answered 201
Created(p) ==
    /\ ListedNone(p) /\ p.file \in Contents
    /\ OnePost(p) /\ p.reqs[1].status = 201

\* a call by a new uploader, with a file and a listing answered 200, that
\* follows a creating call
FollowsCreate(u, p) ==
    /\ Created(p)
    /\ u.pc = "done" /\ ~u.checkmode /\ u.fresh
    /\ u.file \in Contents /\ u.lstatus = 200

DiscoveryStep(c, lo, hi) ==
    /\ up[c].pc = "check" /\ up[c].file = DevNull
    /\ up'[c].pc # "check"
    /\ up'[c].lstatus = 200
    /\ up'[c].nfound >= lo /\ up'[c].nfound <= hi

\* C6: mr_provisioner_preseed.py, no file given (/dev/null) and no preseed with
\* the target name in the listing: the call ends with the missing-content
\* error, which run_module reports as a failure, without a POST or a PUT, and
\* the service's preseeds are as before.
C6_MissingContent ==
    [][\A c \in Clients :
         DiscoveryStep(c, 0, 0) =>
             /\ up'[c].pc = "done"
             /\ up'[c].res = "error_missing"
             /\ ~up'[c].changed
             /\ up'[c].reqs = <<>>
             /\ store' = store]_pvars

C6_Witness ==
    \E c \in Clients :
        /\ ListedNone(up[c]) /\ up[c].file = DevNull
        /\ up[c].res = "error_missing" /\ up[c].reqs = <<>>

\* C7: mr_provisioner_preseed.py, no file given (/dev/null) and a preseed with
\* the target name in the listing: the call ends after the listing request,
\* without a POST or a PUT, and the service's preseeds are as before.
C7_DiscoveryNoMutation ==
    [][\A c \in Clients :
         DiscoveryStep(c, 1, MaxInit + MaxCalls) =>
             /\ up'[c].pc = "done"
             /\ up'[c].reqs = <<>>
             /\ store' = store]_pvars

C7_Witness ==
    \E c \in Clients :
        /\ up[c].pc = "done" /\ ~up[c].checkmode /\ up[c].file = DevNull
        /\ up[c].lstatus = 200 /\ up[c].nfound >= 1
        /\ up[c].reqs = <<>>
        /\ Cardinality(Named(store, TargetName)) >= 1

\* C8: mr_provisioner_preseed.py, no file given and a preseed E with the
\* target name in the listing: the call returns E, the first such record of the
\* listing.
C8_DiscoveryReturnsRecord ==
    \A c \in Clients :
        (/\ up[c].pc = "done" /\ ~up[c].checkmode /\ up[c].file = DevNull
         /\ up[c].lstatus = 200 /\ up[c].nfound >= 1)
        => (up[c].retkind = "record" /\ up[c].ret = up[c].found)

\* both clients' calls had a file and a listing without the target name, and
\* both issued a POST that the service answered 201
BothCreated == Created(up["c1"]) /\ Created(up["c2"])

\* C9: two clients on the same name. A call whose listing held no preseed with
\* the target name issues its POST whatever the other client has done since the
\* listing; when both clients' listings held none and both POSTs were accepted,
\* the service holds two preseeds with the target name, one per POST.
C9_RaceDuplicates ==
    /\ \A c \in Clients : (ListedNone(up[c]) /\ up[c].file \in Contents) => OnePost(up[c])
    /\ BothCreated =>
          /\ up["c1"].reqs[1].id # up["c2"].reqs[1].id
          /\ \A c \in Clients : \E i \in Named(store, TargetName) :
                 /\ store[i].id = up[c].reqs[1].id
                 /\ store[i].content = up[c].file

C9_Witness ==
    /\ BothCreated
    /\ Cardinality(Named(store, TargetName)) = 2

\* the answer to the machine lookup the run made last
LookedUp == nb.reqs # <<>> /\ nb.reqs[Len(nb.reqs)].verb = "GET"

\* what a lookup must make of a response answered 200: kind and machine
Resolved(r, got) ==
    /\ Len(r.json) = 1 => got.kind = "machine" /\ got.machine = r.json[1]
    /\ Len(r.json) = 0 => got.kind = "notfound" /\ got.machine = NoMachine
    /\ Len(r.json) >= 2 => got.kind = "ambiguous" /\ got.machine = NoMachine

\* C3: get_machine_by_name (NetbootSwitcher's and IPGetter's), on a response
\* answered 200: exactly one match gives that machine record, no match gives
\* the not-found error, two or more give the ambiguity error; a machine is
\* returned only when there is exactly one match, and the run goes on to its
\* next step only then.
C3_ResolveByName ==
    (LookedUp /\ nb.resp.status_code = 200) =>
        /\ Resolved(nb.resp, [kind |-> nb.lookup, machine |-> nb.machine_json])
        /\ Resolved(nb.resp, ipgetter_get_machine_by_name(nb.resp))
        /\ nb.lookup = "machine" =>
              /\ nb.machine_json.name = nb.name
              /\ Cardinality({i \in 1..Len(machines) : machines[i].name = nb.name}) = 1
        /\ nb.lookup # "machine" => nb.pc = "done" /\ nb.res \in {"crashed", "failed"}

C3_Witness ==
    /\ LookedUp /\ nb.resp.status_code = 200
    /\ Len(nb.resp.json) = 1
    /\ Len(machines) = MaxMachines
    /\ nb.pc = "timeout"
    /\ nb.machine_json = nb.resp.json[1]

\* the requests of the run that are not GETs
Mutating == SelectSeq(nb.reqs, LAMBDA q : q.verb # "GET")

\* the run got through its lookups and its delay
DelayOver == nb.pc = "done" /\ nb.lookup = "machine" /\ nb.err # "ValueError"

RECURSIVE FirstIface(_, _, _)
FirstIface(entries, interface, k) ==
    IF k > Len(entries) THEN 0
    ELSE IF entries[k].identifier = interface THEN k
    ELSE FirstIface(entries, interface, k + 1)

\* C5: when the interfaces were fetched and one of them has the identifier
\* asked for, get_ip returns that entry's configured_ipv4 if its config_type_v4
\* is "dynamic-reserved" and configured_ipv4 is not empty, and its lease_ipv4
\* otherwise.
C5_SelectionPolicy ==
    (ip.pc = "done" /\ ip.fetched /\ FirstIface(ip.entries, ip.interface, 1) # 0) =>
        LET e == ip.entries[FirstIface(ip.entries, ip.interface, 1)]
        IN /\ ip.outcome = "return"
           /\ ip.value = IF e.config_type_v4 = "dynamic-reserved" /\ e.configured_ipv4 # ""
                          THEN e.configured_ipv4 ELSE e.lease_ipv4

\* C10: when the interfaces were fetched and none of them has the identifier
\* asked for, the selection ends with a not-found error, never with a value.
C10_NoMatchIsNotFound ==
    (ip.pc = "done" /\ ip.fetched /\ FirstIface(ip.entries, ip.interface, 1) = 0) =>
        ip.outcome = "NotFound"

\* C11: when the machine lookup or the interface fetch of IPGetter fails (a
\* status other than 200, no or several machines, no interface), what reaches
\* the caller is the ProvisionerError raised where the failure was detected.
C11_FetchErrorPropagates ==
    (ip.pc = "done" /\ ~ip.fetched) => ip.outcome = "ProvisionerError"

\* C12: in mr_provisioner_preseed.py, a listing answered with a status other
\* than 200 ends upload_preseed with the fetch error returned in the result
\* (no exception, changed stays false) and no POST or PUT is sent, with or
\* without a file and whatever id the uploader holds.
C12_ListingErrorStops ==
    \A c \in Clients :
        (variant = "module" /\ up[c].lstatus \notin {0, 200}) =>
            /\ up[c].pc = "done"
            /\ up[c].res = "error_fetch"
            /\ up[c].retkind = "dict"
            /\ ~up[c].raised
            /\ ~up[c].changed
            /\ up[c].reqs = <<>>

\* a failed listing with a file given, on an uploader that already holds an id
C12_Witness ==
    \E c \in Clients :
        /\ variant = "module" /\ up[c].pc = "done"
        /\ up[c].lstatus = 500 /\ up[c].file \in Contents
        /\ up[c].id # NoId /\ up[c].res = "error_fetch"

\* a finished call whose listing was answered 200
ListedOk(u) == u.pc = "done" /\ ~u.checkmode /\ u.lstatus = 200

\* the statuses of the call's mutating requests
PutsOf(u) == {i \in 1..Len(u.reqs) : u.reqs[i].verb = "PUT"}

\* C13: in mr_provisioner_preseed.py, with the listing answered 200 and a file
\* given: when an entry with the name is listed, the call's only mutating
\* request is a PUT to that entry's id and the call succeeds exactly when the
\* PUT is answered 200; when none is listed, it is a POST and the call succeeds
\* exactly when it is answered 201; any other status ends in a transport error.
C13_StatusDecidesOutcome ==
    \A c \in Clients :
        LET u == up[c] IN
        (variant = "module" /\ ListedOk(u) /\ u.file \in Contents) =>
            IF u.nfound >= 1
            THEN /\ OnePutTo(u, u.found.id)
                 /\ u.res = "ok" <=> u.reqs[1].status = 200
                 /\ u.res # "ok" => u.res = "error_put"
            ELSE /\ OnePost(u)
                 /\ u.res = "ok" <=> u.reqs[1].status = 201
                 /\ u.res # "ok" => u.res = "error_post"

\* C20: the choice between POST and PUT rests on the listing of the call alone,
\* also on an uploader used for several calls: when the listing of a call has
\* no entry with the name, the call never sends a PUT (to an id kept from an
\* earlier call).
C20_NoStaleIdentifier ==
    \A c \in Clients :
        (ListedOk(up[c]) /\ up[c].nfound = 0) => PutsOf(up[c]) = {}

\* C14: switch_netboot_flag succeeds exactly when its PUT is answered 200 or
\* 202; every other status, another 2xx included, ends the run with the
\* transport error. On success the run reports a change and the record it
\* returns has netboot_enabled = false.
C14_SwitchStatus ==
    Mutating # <<>> =>
        /\ nb.pc = "done"
        /\ nb.res = "ok" <=> nb.pstatus \in {200, 202}
        /\ nb.res # "ok" => nb.res = "failed" /\ nb.err = "transport" /\ ~nb.changed
        /\ nb.res = "ok" =>
              /\ nb.changed
              /\ nb.ret.id = Mutating[1].id
              /\ ~nb.ret.netboot_enabled

C14_Witness ==
    /\ Mutating # <<>> /\ nb.pstatus = 202
    /\ nb.res = "ok" /\ nb.changed

\* C15: get_machine_by_name tests the status before the number of matches: an
\* answer with a status other than 200 gives the transport error and no
\* machine, whatever its body holds, a single matching machine included, and
\* the run ends there.
C15_StatusBeforeCount ==
    (nb.reqs # <<>> /\ nb.resp.status_code # 200) =>
        /\ nb.lookup = "transport"
        /\ nb.err = "transport"
        /\ nb.machine_json = NoMachine
        /\ nb.pc = "done"
        /\ Mutating = <<>>
        /\ ipgetter_get_machine_by_name(nb.resp).kind = "transport"

C15_Witness ==
    /\ nb.reqs # <<>> /\ nb.resp.status_code = 500
    /\ Len(nb.resp.json) = 1
    /\ nb.lookup = "transport"

C18_NoLostUpdate ==
    (nb.pc = "done" /\ nb.res = "ok" /\ nb.edited # "-") =>
        nb.ret.hostname = nb.edited

\* the last lookup of the run did not give exactly one machine with status 200
LookupFailed ==
    nb.reqs # <<>> /\ (nb.resp.status_code # 200 \/ Len(nb.resp.json) # 1)

NetbootFlags(ms) == [i \in 1..Len(ms) |-> ms[i].netboot_enabled]

\* C19: when a lookup of the netboot run fails (status other than 200, no
\* match, several matches) the run ends there: it does not wait, it sends no
\* PUT, it reports no change, and netboot_enabled stays as it is on every
\* machine.
C19_FailedLookupEndsRun ==
    /\ [](LookupFailed =>
            /\ nb.pc = "done"
            /\ nb.res \in {"crashed", "failed"}
            /\ nb.err \in {"transport", "notfound", "ambiguous"}
            /\ nb.delay = 0 /\ nb.elapsed = 0
            /\ Mutating = <<>>
            /\ ~nb.changed)
    /\ [][LookupFailed' => NetbootFlags(machines') = NetbootFlags(machines)]_vars

\* a lookup finds two machines with the name, one with the flag set
C19_Witness ==
    /\ LookupFailed /\ nb.pc = "done" /\ nb.err = "ambiguous"
    /\ nb.resp.status_code = 200 /\ Len(nb.resp.json) = 2
    /\ \E i \in 1..Len(machines) : machines[i].netboot_enabled

\* C16: in preseedupload.py and preseed_upload_module.py, a listing answered
\* with a status other than 200 ends upload_preseed with the error raised to
\* the caller and no POST or PUT sent, so that a service that has one preseed
\* with the name never gets a second one from such a call.
C16_LegacyListingErrorRaised ==
    variant = "legacy" =>
        /\ \A c \in Clients :
              up[c].lstatus \notin {0, 200} =>
                  /\ up[c].pc = "done"
                  /\ up[c].raised
                  /\ up[c].res = "error_fetch"
                  /\ up[c].reqs = <<>>
        /\ Cardinality(Named(store, TargetName)) <= 1

\* a call of mr_provisioner_preseed.py with a file, whose listing was answered
\* 200 with two or more preseeds of the target name
ListedSeveral(u) ==
    /\ variant = "module" /\ u.lstatus = 200
    /\ u.nfound >= 2 /\ u.file \in Contents

C23_ChangedOnlyOnMutation ==
    \A c \in Clients :
        (variant = "module" /\ up[c].pc = "done" /\ up[c].changed) =>
            up[c].reqs # <<>>

====
